---- MODULE Spec2Model ----
(***************************************************************************)
(* Price-vs-fundamentals decomposition of                                  *)
(* scripts/Price vs Fundamentals/build_price_vs_fundamentals.py:           *)
(* decompose_endpoints and rolling_decomposition over a monthly panel.     *)
(*                                                                         *)
(* Number representation.  A price, a P/E ratio and an implied EPS are     *)
(* floats that the code only ever multiplies, divides, tests for sign and  *)
(* takes the logarithm of.  A positive float is modelled by its logarithm  *)
(* on an integer grid: Pos(k) stands for exp(k * u), with the grid step u  *)
(* equal to the code's denominator threshold 1e-12, so that the threshold  *)
(* is DenomEps = 1 grid step.  Division of positive floats is subtraction  *)
(* of exponents and np.log returns the exponent.  The outputs log_price,   *)
(* log_eps and log_multiple are "linear" values Lin(v), in grid steps.     *)
(* A share is the exact rational n / d.  Rounding of the float operations  *)
(* is not modelled; NaN and its propagation are.  Prices and ratios are    *)
(* finite (no inf), so a ratio of two of them neither overflows nor        *)
(* underflows.                                                             *)
(***************************************************************************)
EXTENDS Integers, Sequences, FiniteSets, TLC

VARIABLES
  panel, endpoint, roll,      \* a panel and the results of the two decomposers
  table, load, reload,        \* a CSV file and the results of load_pe_monthly
  files, args, pc, summary_rows, rolling_frames, diagnostics_rows, written
                              \* main: its inputs, its position and its lists

decompVars == <<panel, endpoint, roll>>
loaderVars == <<table, load, reload>>
batchVars ==
  <<files, args, pc, summary_rows, rolling_frames, diagnostics_rows, written>>

vars == <<decompVars, loaderVars, batchVars>>

(***************************************************************************)
(* Bounds of the model.                                                    *)
(***************************************************************************)
MaxRows == 3
MaxWindow == 2
\* rows of a CSV file
MaxRawRows == 2
\* tickers of one run of main
NumTickers == 2
\* columns of a DataFrame given to pick_col
MaxColumns == 3

\* exponents of the prices and of the P/E ratios a panel row may hold
PriceExps == {0, 2, 3}
PeExps == {0, 1}
\* values of --min_abs_log_price (grid steps) and of --share_cap_pct (percent)
MinAbsLogPrices == {0, 1, 3}
ShareCaps == {40, 100}
Windows == (0 - MaxWindow)..MaxWindow
Ticker == "NVDA"

\* line 105: the threshold 1e-12 on |log_price|, one grid step
DenomEps == 1

(***************************************************************************)
(* Floats.                                                                 *)
(***************************************************************************)
NaN == [kind |-> "nan", e |-> 0]
Pos(k) == [kind |-> "pos", e |-> k]

notna(x) == x.kind # "nan"

\* x / y of two floats: NaN propagates, pos / pos is pos
Div(x, y) ==
  IF x.kind = "pos" /\ y.kind = "pos" THEN Pos(x.e - y.e) ELSE NaN

\* mutant of safe_pos: x >= 0 is kept
safe_pos_keeps_zero(x) == IF x.kind \in {"pos", "zero"} THEN x ELSE NaN

\* x.where(x > 0, np.nan)
safe_pos(x) == IF x.kind = "pos" THEN x ELSE NaN

\* linear values: the results of np.log
LinNaN == [fin |-> FALSE, v |-> 0]
Lin(v) == [fin |-> TRUE, v |-> v]

isfinite(x) == x.fin

Abs(n) == IF n < 0 THEN 0 - n ELSE n

\* float(np.log(x)) of a float x
np_log(x) == IF x.kind = "pos" THEN Lin(x.e) ELSE LinNaN

\* shares: exact rationals n / d in lowest terms with d > 0, or NaN
RECURSIVE Gcd(_, _)
Gcd(a, b) == IF b = 0 THEN a ELSE Gcd(b, a % b)

ShareNaN == [def |-> FALSE, n |-> 0, d |-> 1]
Frac(n, d) ==
  LET g == Gcd(Abs(n), Abs(d))
      s == IF d < 0 THEN 0 - 1 ELSE 1
  IN [def |-> TRUE, n |-> (s * n) \div g, d |-> (s * d) \div g]

\* a < b on defined shares
FracLess(a, b) == a.n * b.d < b.n * a.d

(***************************************************************************)
(* Panels.  A row is [date, price, pe, eps]; a date is a month number.     *)
(***************************************************************************)
\* mutant of Row: eps = pe / price
Row_inverted(d, price, pe) ==
  [date |-> d, price |-> price, pe |-> pe, eps |-> safe_pos(Div(pe, price))]

Row(d, price, pe) ==
  \* line 76: eps = safe_pos(price / pe)
  [date |-> d, price |-> price, pe |-> pe, eps |-> safe_pos(Div(price, pe))]

\* mutant of valid_row: only the price is looked at
valid_row_price_only(r) == notna(r.price)

\* line 89 / 133: dropna(subset=["price", "pe", "eps"]) keeps a row iff
\* none of the three is NaN
valid_row(r) == notna(r.price) /\ notna(r.pe) /\ notna(r.eps)

dropna(p) == SelectSeq(p, valid_row)

\* p.iloc[a:b] with Python's slice rules (0-based, negative from the end)
slice_index(a, n) ==
  IF a < 0 THEN (IF a + n < 0 THEN 0 ELSE a + n) ELSE (IF a > n THEN n ELSE a)

iloc(p, a, b) ==
  LET lo == slice_index(a, Len(p))
      hi == slice_index(b, Len(p))
  IN IF lo < hi THEN SubSeq(p, lo + 1, hi) ELSE <<>>

\* sort_values("date"): ascending, rows of equal date keep their order
RECURSIVE insert_by_date(_, _)
insert_by_date(sorted, r) ==
  IF sorted = <<>> THEN <<r>>
  ELSE IF sorted[Len(sorted)].date <= r.date THEN Append(sorted, r)
  ELSE Append(insert_by_date(SubSeq(sorted, 1, Len(sorted) - 1), r),
              sorted[Len(sorted)])

RECURSIVE sort_values(_)
sort_values(p) ==
  IF p = <<>> THEN <<>>
  ELSE insert_by_date(sort_values(SubSeq(p, 1, Len(p) - 1)), p[Len(p)])

(***************************************************************************)
(* Outcomes of a call.                                                     *)
(***************************************************************************)
NotCalled == [status |-> "none", exc |-> "", val |-> <<>>]
Returned(v) == [status |-> "returned", exc |-> "", val |-> v]
Raised(x) == [status |-> "raised", exc |-> x, val |-> <<>>]

(***************************************************************************)
(* decompose_endpoints                                                     *)
(***************************************************************************)
\* mutant of too_few_rows: one row is taken to be enough
too_few_rows_below_one(p) == Len(p) < 1

\* line 90: len(p) < 2
too_few_rows(p) == Len(p) < 2

\* mutant of log_eps_of: start and end swapped
log_eps_swapped(s, e) == np_log(Div(s.eps, e.eps))

\* lines 100-102
log_price_of(s, e) == np_log(Div(e.price, s.price))
log_eps_of(s, e) == np_log(Div(e.eps, s.eps))
log_mult_of(s, e) == np_log(Div(e.pe, s.pe))

\* mutant of denom_of: the threshold itself is accepted
denom_of_inclusive(log_price) ==
  IF isfinite(log_price) /\ Abs(log_price.v) >= DenomEps
  THEN log_price ELSE LinNaN

\* line 105: denom = log_price if abs(log_price) > 1e-12 else np.nan
denom_of(log_price) ==
  IF isfinite(log_price) /\ Abs(log_price.v) > DenomEps
  THEN log_price ELSE LinNaN

\* mutant of share_pct_of: the share as a fraction, without the factor 100
share_pct_of_fraction(log_x, denom) ==
  IF isfinite(denom) /\ isfinite(log_x)
  THEN Frac(log_x.v, denom.v) ELSE ShareNaN

\* lines 106-107 and 115-116: 100 * (log_x / denom), NaN without a denom
share_pct_of(log_x, denom) ==
  IF isfinite(denom) /\ isfinite(log_x)
  THEN Frac(100 * log_x.v, denom.v) ELSE ShareNaN

decompose_endpoints(pnl) ==
  LET p == dropna(pnl)
  IN IF too_few_rows(p)
     THEN Raised("ValueError")
     ELSE LET s == p[1]
              e == p[Len(p)]
              log_price == log_price_of(s, e)
              log_eps == log_eps_of(s, e)
              log_mult == log_mult_of(s, e)
              denom == denom_of(log_price)
          IN Returned([start |-> s.date,
                       end |-> e.date,
                       log_price |-> log_price,
                       log_eps |-> log_eps,
                       log_multiple |-> log_mult,
                       share_eps_pct |-> share_pct_of(log_eps, denom),
                       share_multiple_pct |-> share_pct_of(log_mult, denom)])

(***************************************************************************)
(* rolling_decomposition                                                   *)
(***************************************************************************)
\* mutant of window_sub: the window starts one row late
window_sub_late(p, i, window_months) == iloc(p, i - window_months + 1, i + 1)

\* line 137: sub = p.iloc[i - window_months : i + 1]
window_sub(p, i, window_months) == iloc(p, i - window_months, i + 1)

\* mutant of stable_for_shares: the boundary is excluded
stable_for_shares_strict(log_price, min_abs_log_price) ==
  isfinite(log_price) /\ Abs(log_price.v) > min_abs_log_price

\* line 147
stable_for_shares(log_price, min_abs_log_price) ==
  isfinite(log_price) /\ Abs(log_price.v) >= min_abs_log_price

\* mutant of clip: only the upper bound is applied
clip_upper_only(x, lo, hi) ==
  IF ~x.def THEN ShareNaN
  ELSE IF FracLess(Frac(hi, 1), x) THEN Frac(hi, 1) ELSE x

\* np.clip(x, lo, hi) = minimum(maximum(x, lo), hi); NaN stays NaN
clip(x, lo, hi) ==
  IF ~x.def THEN ShareNaN
  ELSE LET m == IF FracLess(x, Frac(lo, 1)) THEN Frac(lo, 1) ELSE x
       IN IF FracLess(Frac(hi, 1), m) THEN Frac(hi, 1) ELSE m

\* mutant of rolling_share: an unstable record carries the clipped share
rolling_share_always(stable, share, share_cap_pct) ==
  clip(share, 0 - share_cap_pct, share_cap_pct)

\* lines 149-157: the share a record carries
rolling_share(stable, share, share_cap_pct) ==
  IF stable THEN clip(share, 0 - share_cap_pct, share_cap_pct) ELSE ShareNaN

\* mutant of rolling_row: an unstable record loses its log components
rolling_row_blank_unstable(d, ticker, min_abs_log_price, share_cap_pct) ==
  LET stable == stable_for_shares(d.log_price, min_abs_log_price)
  IN [ticker |-> ticker,
      start |-> d.start,
      end |-> d.end,
      log_price |-> d.log_price,
      log_eps |-> IF stable THEN d.log_eps ELSE LinNaN,
      log_multiple |-> IF stable THEN d.log_multiple ELSE LinNaN,
      stable_for_shares |-> stable,
      share_eps_pct |-> rolling_share(stable, d.share_eps_pct, share_cap_pct),
      share_multiple_pct |->
        rolling_share(stable, d.share_multiple_pct, share_cap_pct)]

\* lines 143-171: the record of one window, from its endpoint decomposition d
rolling_row(d, ticker, min_abs_log_price, share_cap_pct) ==
  LET stable == stable_for_shares(d.log_price, min_abs_log_price)
  IN [ticker |-> ticker,
      start |-> d.start,
      end |-> d.end,
      log_price |-> d.log_price,
      log_eps |-> d.log_eps,
      log_multiple |-> d.log_multiple,
      stable_for_shares |-> stable,
      share_eps_pct |-> rolling_share(stable, d.share_eps_pct, share_cap_pct),
      share_multiple_pct |->
        rolling_share(stable, d.share_multiple_pct, share_cap_pct)]

\* lines 136-171: the loop body for i, i + 1, ..., len(p) - 1 (0-based)
RECURSIVE rolling_rows(_, _, _, _, _, _)
rolling_rows(p, i, ticker, window_months, min_abs_log_price, share_cap_pct) ==
  IF i >= Len(p) THEN <<>>
  ELSE LET r == decompose_endpoints(window_sub(p, i, window_months))
           rest == rolling_rows(p, i + 1, ticker, window_months,
                                min_abs_log_price, share_cap_pct)
       IN IF r.status = "raised"
          THEN rest
          ELSE <<rolling_row(r.val, ticker, min_abs_log_price, share_cap_pct)>>
               \o rest

\* mutant of rolling_panel: the rows with a NaN are not dropped
rolling_panel_unfiltered(pnl) == sort_values(pnl)

\* mutant of rolling_panel: the rows are not sorted by date
rolling_panel_unsorted(pnl) == dropna(pnl)

\* line 133
rolling_panel(pnl) == sort_values(dropna(pnl))

\* mutant of rolling_decomposition: no try / except around the decomposition
\* of a window, so the first failing window ends the call
rolling_decomposition_no_except(pnl, ticker, window_months, min_abs_log_price, share_cap_pct) ==
  LET p == rolling_panel(pnl)
  IN IF \E i \in window_months..(Len(p) - 1) :
          decompose_endpoints(window_sub(p, i, window_months)).status = "raised"
     THEN Raised("ValueError")
     ELSE Returned(rolling_rows(p, window_months, ticker, window_months,
                                min_abs_log_price, share_cap_pct))

\* mutant of rolling_decomposition: the loop starts one window late,
\* range(window_months + 1, len(p))
rolling_decomposition_skip_first(pnl, ticker, window_months, min_abs_log_price, share_cap_pct) ==
  Returned(rolling_rows(rolling_panel(pnl), window_months + 1, ticker,
                        window_months, min_abs_log_price, share_cap_pct))

\* lines 120-173
rolling_decomposition(pnl, ticker, window_months, min_abs_log_price, share_cap_pct) ==
  Returned(rolling_rows(rolling_panel(pnl), window_months, ticker,
                        window_months, min_abs_log_price, share_cap_pct))

(***************************************************************************)
(* The state machine: a panel as load_pe_monthly produces it (one row per  *)
(* month, ascending, eps derived from price and pe), on which main calls   *)
(* decompose_endpoints (line 280) and rolling_decomposition (line 310).    *)
(***************************************************************************)
Floats(exps) == {NaN} \cup {Pos(k) : k \in exps}

Panels ==
  UNION {[1..n -> Floats(PriceExps) \X Floats(PeExps)] : n \in 0..MaxRows}

PanelOf(f) == [j \in DOMAIN f |-> Row(j, f[j][1], f[j][2])]

NoArgs == [window_months |-> 0, min_abs_log_price |-> 0, share_cap_pct |-> 0]

\* the variables of the loader and of main, when they take no part
NoTable == [header |-> <<>>, rows |-> <<>>]

LoaderIdle ==
  /\ table = NoTable
  /\ load = NotCalled
  /\ reload = NotCalled

BatchIdle ==
  /\ files = <<>>
  /\ args = <<>>
  /\ pc = [at |-> "idle", i |-> 0]
  /\ summary_rows = <<>>
  /\ rolling_frames = <<>>
  /\ diagnostics_rows = <<>>
  /\ written = <<>>

Init ==
  /\ \E f \in Panels : panel = PanelOf(f)
  /\ endpoint = NotCalled
  /\ roll = [args |-> NoArgs, ret |-> NotCalled]
  /\ LoaderIdle
  /\ BatchIdle

\* mutant of DecomposeEndpoints: the rows with an undefined value are dropped
\* from the caller's panel (dropna with inplace=True)
DecomposeEndpoints_inplace ==
  /\ endpoint.status = "none"
  /\ endpoint' = decompose_endpoints(panel)
  /\ panel' = dropna(panel)
  /\ UNCHANGED <<roll, loaderVars, batchVars>>

\* line 280: d = decompose_endpoints(panel); line 89 works on a copy
DecomposeEndpoints ==
  /\ endpoint.status = "none"
  /\ endpoint' = decompose_endpoints(panel)
  /\ UNCHANGED <<panel, roll, loaderVars, batchVars>>

\* lines 310-316: roll = rolling_decomposition(panel, ...); line 133 works
\* on a copy
RollingDecomposition ==
  /\ roll.ret.status = "none"
  /\ \E w \in Windows, m \in MinAbsLogPrices, c \in ShareCaps :
       roll' = [args |-> [window_months |-> w,
                          min_abs_log_price |-> m,
                          share_cap_pct |-> c],
                ret |-> rolling_decomposition(panel, Ticker, w, m, c)]
  /\ UNCHANGED <<panel, endpoint, loaderVars, batchVars>>

Next == DecomposeEndpoints \/ RollingDecomposition

Spec == Init /\ [][Next]_vars

(***************************************************************************)
(* The two decomposers on a panel whose rows are in any order: the rows of *)
(* a loaded panel (one per month), permuted.                               *)
(***************************************************************************)
UnsortedPriceExps == {0, 2}
UnsortedPeExps == {0}

DateOrders(n) ==
  {f \in [1..n -> 1..n] : \A a, b \in 1..n : a # b => f[a] # f[b]}

UnsortedPanels(max) ==
  UNION {{[j \in 1..n |-> Row(d[j], f[j][1], f[j][2])] :
            d \in DateOrders(n),
            f \in [1..n -> Floats(UnsortedPriceExps) \X Floats(UnsortedPeExps)]} :
         n \in 0..max}

InitUnsorted ==
  /\ panel \in UnsortedPanels(MaxRows)
  /\ endpoint = NotCalled
  /\ roll = [args |-> NoArgs, ret |-> NotCalled]
  /\ LoaderIdle
  /\ BatchIdle

SpecUnsorted == InitUnsorted /\ [][Next]_vars


(***************************************************************************)
(* load_pe_monthly.  A CSV file is a header (the column names) and rows of *)
(* cells.  A cell of a date column is [m, d], month and day, or NaT for    *)
(* text that to_datetime cannot parse; a cell of another column is a       *)
(* float, blank (NaN) or Text.  A timestamp at the start of month m is the *)
(* month number m, as in the panels above.                                 *)
(***************************************************************************)
NaT == [m |-> 0, d |-> 0]
DateCell(m, d) == [m |-> m, d |-> d]
Text == [kind |-> "text", e |-> 0]
Zero == [kind |-> "zero", e |-> 0]
Neg == [kind |-> "neg", e |-> 0]

\* lines 53, 59, 64: the accepted names, in priority order
DateCandidates == <<"date", "month", "timestamp", "time">>
PriceCandidates == <<"adj close", "adj_close", "adjclose", "price", "close">>
PeCandidates == <<"pe", "p/e", "pe_ratio", "trailing_pe", "pe_ttm">>

\* str.lower on the column names of the model
lower(c) ==
  CASE c = "Date" -> "date"
    [] c = "Adj Close" -> "adj close"
    [] c = "Close" -> "close"
    [] c = "PE" -> "pe"
    [] c = "Volume" -> "volume"
    [] OTHER -> c

\* the value None, which "if not col" takes like an empty name
None == ""

\* mutant of pick_col: the column names are compared as they are written
RECURSIVE pick_col_case_sensitive(_, _)
pick_col_case_sensitive(columns, candidates) ==
  IF candidates = <<>> THEN None
  ELSE LET hits == {i \in 1..Len(columns) : columns[i] = Head(candidates)}
       IN IF hits # {}
          THEN columns[CHOOSE i \in hits : \A j \in hits : j <= i]
          ELSE pick_col_case_sensitive(columns, Tail(candidates))

\* lines 25-31: lower = {c.lower(): c for c in df.columns} keeps, for each
\* lower-cased name, the last column that has it
RECURSIVE pick_col(_, _)
pick_col(columns, candidates) ==
  IF candidates = <<>> THEN None
  ELSE LET hits == {i \in 1..Len(columns) :
                      lower(columns[i]) = lower(Head(candidates))}
       IN IF hits # {}
          THEN columns[CHOOSE i \in hits : \A j \in hits : j <= i]
          ELSE pick_col(columns, Tail(candidates))

\* mutant of month_start: the start of the next month is taken
month_start_next(c) == IF c = NaT THEN 0 ELSE c.m + 1

\* line 35, one cell: to_datetime(errors="coerce"), then the start of the
\* month; 0 is NaT
month_start(c) == IF c = NaT THEN 0 ELSE c.m

to_month_start(x) == [i \in DOMAIN x |-> month_start(x[i])]

\* line 39: pd.to_numeric(errors="coerce")
to_numeric(c) == IF c.kind = "text" THEN NaN ELSE c

\* lines 38-40 on a column
safe_pos_col(x) == [i \in DOMAIN x |-> safe_pos(to_numeric(x[i]))]

\* a DataFrame: its column names in order and the cells of each column
read_csv(tbl) ==
  [columns |-> tbl.header,
   data |-> [c \in {tbl.header[i] : i \in 1..Len(tbl.header)} |->
               LET i == CHOOSE i \in 1..Len(tbl.header) : tbl.header[i] = c
               IN [r \in 1..Len(tbl.rows) |-> tbl.rows[r][i]]],
   len |-> Len(tbl.rows)]

\* df[name] = values: a new column goes last, an old one is overwritten
df_assign(df, name, values) ==
  [columns |-> IF name \in DOMAIN df.data THEN df.columns
               ELSE Append(df.columns, name),
   data |-> [c \in DOMAIN df.data \cup {name} |->
               IF c = name THEN values ELSE df.data[c]],
   len |-> df.len]

\* line 70: dropna(subset=["date"])
has_date(r) == r.date # 0

\* lines 51-70, up to the sort: the rows (date, price, pe) with a date, in
\* file order, or the ValueError of a missing column
load_columns(tbl) ==
  LET df0 == read_csv(tbl)
      date_col == pick_col(df0.columns, DateCandidates)
  IN IF date_col = None THEN Raised("ValueError")
     ELSE
       LET df1 == df_assign(df0, "date", to_month_start(df0.data[date_col]))
           price_col == pick_col(df1.columns, PriceCandidates)
       IN IF price_col = None THEN Raised("ValueError")
          ELSE
            LET df2 == df_assign(df1, "price", safe_pos_col(df1.data[price_col]))
                pe_col == pick_col(df2.columns, PeCandidates)
            IN IF pe_col = None THEN Raised("ValueError")
               ELSE
                 LET df3 == df_assign(df2, "pe", safe_pos_col(df2.data[pe_col]))
                     out == [r \in 1..df3.len |->
                               [date |-> df3.data["date"][r],
                                price |-> df3.data["price"][r],
                                pe |-> df3.data["pe"][r]]]
                 IN Returned(SelectSeq(out, has_date))

\* line 70: sort_values("date") with the default quicksort, which is not
\* stable: every order of the rows that is ascending by date
DateOrdersOf(rows) ==
  {f \in DateOrders(Len(rows)) :
     \A a, b \in 1..Len(rows) : a < b => rows[f[a]].date <= rows[f[b]].date}

\* GroupBy.last on one column of one group: the last value that is not NaN
RECURSIVE last_notna(_)
last_notna(x) ==
  IF x = <<>> THEN NaN
  ELSE IF notna(x[Len(x)]) THEN x[Len(x)]
  ELSE last_notna(SubSeq(x, 1, Len(x) - 1))

\* mutant of groupby_last: no de-duplication
groupby_last_keep_all(sorted) ==
  [k \in 1..Len(sorted) |-> Row(sorted[k].date, sorted[k].price, sorted[k].pe)]

\* lines 73-76: groupby("date", as_index=False).last(), one row per date in
\* ascending order, then eps
groupby_last(sorted) ==
  LET dates == {sorted[k].date : k \in 1..Len(sorted)}
  IN [k \in 1..Cardinality(dates) |->
        LET dt == CHOOSE x \in dates : Cardinality({y \in dates : y <= x}) = k
            SameDate(r) == r.date = dt
            grp == SelectSeq(sorted, SameDate)
        IN Row(dt,
               last_notna([j \in 1..Len(grp) |-> grp[j].price]),
               last_notna([j \in 1..Len(grp) |-> grp[j].pe]))]

\* lines 70-78 for one outcome f of the sort
load_finish(rows, f) == groupby_last([k \in 1..Len(rows) |-> rows[f[k]]])

\* lines 46-78: the results load_pe_monthly can give on a file
load_pe_monthly(tbl) ==
  LET c == load_columns(tbl)
  IN IF c.status = "raised" THEN {c}
     ELSE {Returned(load_finish(c.val, f)) : f \in DateOrdersOf(c.val)}

\* line 321: panel.to_csv(..., index=False), the file of a loaded panel
to_csv(pnl) ==
  [header |-> <<"date", "price", "pe", "eps">>,
   rows |-> [k \in 1..Len(pnl) |->
               <<DateCell(pnl[k].date, 1), pnl[k].price, pnl[k].pe, pnl[k].eps>>]]

\* the files of the model
Headers ==
  {<<"Date", "Adj Close", "PE">>,
   <<"pe_ratio", "Close", "month">>,
   <<"Adj Close", "PE">>,
   <<"Date", "PE">>,
   <<"Date", "Adj Close">>}

DateCells == {NaT, DateCell(1, 1), DateCell(1, 2), DateCell(2, 1)}
PriceCells == {Text, Neg, Pos(0), Pos(2)}
PeCells == {Zero, Pos(0), Pos(1)}

InSeq(x, seq) == \E i \in 1..Len(seq) : seq[i] = x

CellsOf(name) ==
  IF InSeq(lower(name), DateCandidates) THEN DateCells
  ELSE IF InSeq(lower(name), PriceCandidates) THEN PriceCells
  ELSE IF InSeq(lower(name), PeCandidates) THEN PeCells
  ELSE {NaN}

RECURSIVE RowsOf(_)
RowsOf(header) ==
  IF header = <<>> THEN {<<>>}
  ELSE {<<c>> \o r : c \in CellsOf(Head(header)), r \in RowsOf(Tail(header))}

DecompIdle ==
  /\ panel = <<>>
  /\ endpoint = NotCalled
  /\ roll = [args |-> NoArgs, ret |-> NotCalled]

InitLoader ==
  /\ \E h \in Headers, k \in 0..MaxRawRows :
       \E rs \in [1..k -> RowsOf(h)] : table = [header |-> h, rows |-> rs]
  /\ load = NotCalled
  /\ reload = NotCalled
  /\ DecompIdle
  /\ BatchIdle

\* line 251: panel = load_pe_monthly(pe_path)
LoadPeMonthly ==
  /\ load.status = "none"
  /\ load' \in load_pe_monthly(table)
  /\ UNCHANGED <<table, reload, decompVars, batchVars>>

\* line 321 and a second run: the written panel is loaded again
LoadWrittenPanel ==
  /\ load.status = "returned"
  /\ reload.status = "none"
  /\ reload' \in load_pe_monthly(to_csv(load.val))
  /\ UNCHANGED <<table, load, decompVars, batchVars>>

NextLoader == LoadPeMonthly \/ LoadWrittenPanel

SpecLoader == InitLoader /\ [][NextLoader]_vars

(***************************************************************************)
(* pick_col on its own: a DataFrame with any columns, in any order, and    *)
(* one of the three candidate lists of load_pe_monthly.  The DataFrame is  *)
(* held in table, the call and its result in load.                         *)
(***************************************************************************)
\* column names of a file; read_csv renames exact duplicates, so the names
\* of one file are distinct, but two may differ by case only
ColumnNames == {"Date", "date", "Adj Close", "Close", "PE", "Volume"}

CandidateLists == {DateCandidates, PriceCandidates, PeCandidates}

InitPickCol ==
  /\ \E n \in 0..MaxColumns :
       \E h \in [1..n -> ColumnNames] :
         /\ \A a, b \in 1..n : a # b => h[a] # h[b]
         /\ table = [header |-> h, rows |-> <<>>]
  /\ load = NotCalled
  /\ reload = NotCalled
  /\ DecompIdle
  /\ BatchIdle

\* lines 53, 59, 64: a call pick_col(df, candidates)
PickCol ==
  /\ load.status = "none"
  /\ \E c \in CandidateLists :
       load' = Returned([candidates |-> c, col |-> pick_col(table.header, c)])
  /\ UNCHANGED <<table, reload, decompVars, batchVars>>

NextPickCol == PickCol

SpecPickCol == InitPickCol /\ [][NextPickCol]_vars

(***************************************************************************)
(* main: the loop over the tickers (lines 243-321) and the writing of the  *)
(* outputs (lines 323-350).                                                *)
(***************************************************************************)
\* line 183: the default tickers
TickerNames == <<"NVDA", "AMD", "TSM", "ASML", "AVGO">>

\* the order of the ticker strings, for sort_values("ticker")
ticker_rank(t) ==
  CASE t = "AMD" -> 1 [] t = "ASML" -> 2 [] t = "AVGO" -> 3
    [] t = "NVDA" -> 4 [] t = "TSM" -> 5

\* lines 329, 347: sort_values("ticker") of rows with distinct tickers
sort_by_ticker(rows) ==
  LET ranks == {ticker_rank(rows[k].ticker) : k \in 1..Len(rows)}
  IN [k \in 1..Len(rows) |->
        LET rk == CHOOSE x \in ranks : Cardinality({y \in ranks : y <= x}) = k
        IN rows[CHOOSE j \in 1..Len(rows) : ticker_rank(rows[j].ticker) = rk]]

\* .date().isoformat() of a month start: the date of its first day
isoformat(m) == DateCell(m, 1)

\* lines 256-259: the optional --start and --end filters; 0 is None
date_filter(pnl, start_dt, end_dt) ==
  LET Keep(r) == /\ (start_dt # 0 => r.date >= start_dt)
                 /\ (end_dt # 0 => r.date <= end_dt)
  IN SelectSeq(pnl, Keep)

\* lines 262-277: the diagnostics row of a ticker
diagnostics_row(t, tbl, pnl) ==
  LET dates == {pnl[k].date : k \in 1..Len(pnl)}
  IN [ticker |-> t,
      raw_rows |-> Len(tbl.rows),
      monthly_rows |-> Len(pnl),
      valid_rows_price_pe_eps |-> Len(dropna(pnl)),
      start_date |-> IF dates = {} THEN NaT
                     ELSE isoformat(CHOOSE x \in dates : \A y \in dates : x <= y),
      end_date |-> IF dates = {} THEN NaT
                   ELSE isoformat(CHOOSE x \in dates : \A y \in dates : y <= x)]

\* lines 285-297: the summary row of a ticker
summary_row(t, d) ==
  [ticker |-> t,
   start |-> isoformat(d.start),
   end |-> isoformat(d.end),
   log_price |-> d.log_price,
   log_eps |-> d.log_eps,
   log_multiple |-> d.log_multiple,
   share_eps_pct |-> d.share_eps_pct,
   share_multiple_pct |-> d.share_multiple_pct]

\* what one pass of the loop body adds for ticker t, whose file is f and
\* whose load gave o: lines 244-321
ticker_step(t, f, o, a) ==
  LET nothing == [kind |-> "missing", summary |-> <<>>, frames |-> <<>>,
                  diagnostics |-> <<>>, written |-> <<>>]
  IN IF ~f.exists THEN nothing
     ELSE IF o.status = "raised"
     THEN [nothing EXCEPT !.kind = "load_failed"]
     ELSE
       LET pnl == date_filter(o.val, a.start, a.end)
           diag == IF a.write_diagnostics
                   THEN <<diagnostics_row(t, f.table, pnl)>> ELSE <<>>
           d == decompose_endpoints(pnl)
       IN IF d.status = "raised"
          THEN [nothing EXCEPT !.kind = "endpoint_failed",
                               !.diagnostics = diag]
          ELSE
            LET rl == rolling_decomposition(pnl, t, a.rolling_months,
                                            a.min_abs_log_price, a.share_cap_pct)
            IN IF rl.status = "raised"
               THEN [kind |-> "crashed",
                     summary |-> <<summary_row(t, d.val)>>,
                     frames |-> <<>>,
                     diagnostics |-> diag,
                     written |-> <<>>]
               ELSE [kind |-> "ok",
                     summary |-> <<summary_row(t, d.val)>>,
                     frames |-> IF rl.val = <<>> THEN <<>> ELSE <<rl.val>>,
                     diagnostics |-> diag,
                     written |-> IF a.write_panels
                                 THEN <<[name |-> <<t, "_panel_clean.csv">>,
                                         content |-> to_csv(pnl)]>>
                                 ELSE <<>>]

\* mutant of next_pc: a ticker that fails to load ends the loop
next_pc_break_on_failure(i, kind) ==
  IF kind = "crashed" THEN [at |-> "crashed", i |-> i]
  ELSE IF kind = "load_failed"
  THEN [at |-> "loop", i |-> Len(args.tickers) + 1]
  ELSE [at |-> "loop", i |-> i + 1]

\* lines 247, 254, 283 (continue) and the end of the loop body: the next
\* ticker; an exception nothing catches ends main
next_pc(i, kind) ==
  IF kind = "crashed" THEN [at |-> "crashed", i |-> i]
  ELSE [at |-> "loop", i |-> i + 1]

\* pd.concat(rolling_frames, ignore_index=True)
RECURSIVE concat(_)
concat(frames) ==
  IF frames = <<>> THEN <<>> ELSE Head(frames) \o concat(Tail(frames))

\* the files of a run
BatchHeader == <<"Date", "Adj Close", "PE">>
BatchTables ==
  {\* no price column: the load fails
   [header |-> <<"Date", "PE">>, rows |-> <<<<DateCell(1, 1), Pos(0)>>>>],
   \* one valid row: the endpoint decomposition fails
   [header |-> BatchHeader,
    rows |-> <<<<DateCell(1, 1), Pos(0), Pos(0)>>,
               <<DateCell(2, 1), Neg, Pos(1)>>>>],
   \* three valid months
   [header |-> BatchHeader,
    rows |-> <<<<DateCell(1, 1), Pos(0), Pos(1)>>,
               <<DateCell(2, 1), Pos(2), Pos(0)>>,
               <<DateCell(3, 1), Pos(3), Pos(0)>>>>],
   \* two rows of one month, then two more months
   [header |-> BatchHeader,
    rows |-> <<<<DateCell(1, 1), Pos(0), Pos(0)>>,
               <<DateCell(1, 2), Pos(2), Pos(1)>>,
               <<DateCell(2, 1), Pos(3), Pos(0)>>,
               <<DateCell(3, 1), Pos(0), Pos(1)>>>>]}

BatchFiles ==
  {[exists |-> FALSE, table |-> NoTable]} \cup
  {[exists |-> TRUE, table |-> tb] : tb \in BatchTables}

BatchTickers == SubSeq(TickerNames, 1, NumTickers)

BatchArgs ==
  [tickers : {BatchTickers},
   start : {0, 2},
   end : {0},
   rolling_months : 1..MaxWindow,
   min_abs_log_price : MinAbsLogPrices,
   share_cap_pct : ShareCaps,
   write_panels : {TRUE},
   write_diagnostics : BOOLEAN]

InitBatch ==
  /\ args \in BatchArgs
  /\ files \in [{BatchTickers[i] : i \in 1..NumTickers} -> BatchFiles]
  /\ pc = [at |-> "loop", i |-> 1]
  /\ summary_rows = <<>>
  /\ rolling_frames = <<>>
  /\ diagnostics_rows = <<>>
  /\ written = <<>>
  /\ DecompIdle
  /\ LoaderIdle

\* lines 243-321: the loop body for the next ticker
ProcessTicker ==
  /\ pc.at = "loop"
  /\ pc.i <= Len(args.tickers)
  /\ LET t == args.tickers[pc.i]
         f == files[t]
     IN \E o \in (IF f.exists THEN load_pe_monthly(f.table) ELSE {NotCalled}) :
          LET st == ticker_step(t, f, o, args)
          IN /\ summary_rows' = summary_rows \o st.summary
             /\ rolling_frames' = rolling_frames \o st.frames
             /\ diagnostics_rows' = diagnostics_rows \o st.diagnostics
             /\ written' = written \o st.written
             /\ pc' = next_pc(pc.i, st.kind)
  /\ UNCHANGED <<files, args, decompVars, loaderVars>>

\* lines 323-350: after the loop
WriteOutputs ==
  /\ pc.at = "loop"
  /\ pc.i > Len(args.tickers)
  /\ pc' = [at |-> "done", i |-> pc.i]
  /\ written' =
       IF summary_rows = <<>> THEN written
       ELSE written
            \o <<[name |-> <<"decomposition_summary.csv">>,
                  content |-> sort_by_ticker(summary_rows)]>>
            \o (IF rolling_frames # <<>>
                THEN <<[name |-> <<"decomposition_timeseries.csv">>,
                        content |-> concat(rolling_frames)]>>
                ELSE <<>>)
            \o (IF args.write_diagnostics /\ diagnostics_rows # <<>>
                THEN <<[name |-> <<"decomposition_diagnostics.csv">>,
                        content |-> sort_by_ticker(diagnostics_rows)]>>
                ELSE <<>>)
  /\ UNCHANGED <<files, args, summary_rows, rolling_frames, diagnostics_rows,
                 decompVars, loaderVars>>

NextBatch == ProcessTicker \/ WriteOutputs

SpecBatch == InitBatch /\ [][NextBatch]_vars

(***************************************************************************)
(* Properties.                                                             *)
(***************************************************************************)
EndpointReturned == endpoint.status = "returned"
RollReturned == roll.ret.status = "returned"
RollRecords == IF RollReturned THEN roll.ret.val ELSE <<>>
RecordIndices == 1..Len(RollRecords)

\* the indices of the panel rows whose price, pe and eps are all defined
DefinedRows ==
  {j \in 1..Len(panel) : /\ panel[j].price.kind = "pos"
                         /\ panel[j].pe.kind = "pos"
                         /\ panel[j].eps.kind = "pos"}

\* the defined rows in date order (the panel is ascending by date)
RECURSIVE DefinedSeq(_)
DefinedSeq(j) ==
  IF j > Len(panel) THEN <<>>
  ELSE (IF j \in DefinedRows THEN <<panel[j]>> ELSE <<>>) \o DefinedSeq(j + 1)

MinOf(S) == CHOOSE x \in S : \A y \in S : x <= y
MaxOf(S) == CHOOSE x \in S : \A y \in S : y <= x

LogIdentity(d) ==
  /\ d.log_price.fin /\ d.log_eps.fin /\ d.log_multiple.fin
  /\ d.log_price.v = d.log_eps.v + d.log_multiple.v

\* C1: in the result of decompose_endpoints and in every record of
\* rolling_decomposition, log_price = log_eps + log_multiple (the rows of the
\* panel have eps = price / pe).
C1_LogIdentity ==
  /\ EndpointReturned => LogIdentity(endpoint.val)
  /\ \A k \in RecordIndices : LogIdentity(RollRecords[k])

C1_Witness ==
  /\ EndpointReturned
  /\ endpoint.val.log_eps.v # 0
  /\ endpoint.val.log_multiple.v # 0
  /\ endpoint.val.log_price.v # 0
  /\ \E k \in RecordIndices :
       /\ RollRecords[k].log_eps.v # 0
       /\ RollRecords[k].log_multiple.v # 0

\* C2: with a window W >= 1 over the filtered, date-sorted series p, there
\* is one record for every index i = W .. len(p) - 1, in that order, and the
\* record for i starts at the date of p[i - W] and ends at the date of p[i],
\* whatever the calendar gap between the two rows.
C2_WindowEndpoints ==
  (RollReturned /\ roll.args.window_months >= 1) =>
    LET p == DefinedSeq(1)
        W == roll.args.window_months
    IN /\ Len(RollRecords) = (IF Len(p) > W THEN Len(p) - W ELSE 0)
       /\ \A k \in RecordIndices :
            /\ RollRecords[k].start = p[k].date
            /\ RollRecords[k].end = p[k + W].date

C2_Witness ==
  /\ RollReturned
  /\ roll.args.window_months >= 1
  /\ Len(RollRecords) >= 1
  /\ RollRecords[1].end - RollRecords[1].start > roll.args.window_months

\* C3: in every record, stable_for_shares is true iff log_price is finite and
\* |log_price| >= min_abs_log_price; equality counts as stable.
C3_StableIff ==
  \A k \in RecordIndices :
    LET r == RollRecords[k]
    IN r.stable_for_shares <=>
         (r.log_price.fin /\
            (r.log_price.v >= roll.args.min_abs_log_price \/
             0 - r.log_price.v >= roll.args.min_abs_log_price))

C3_Witness ==
  /\ roll.args.min_abs_log_price > 0
  /\ \E k \in RecordIndices :
       /\ RollRecords[k].log_price.v = roll.args.min_abs_log_price
       /\ RollRecords[k].stable_for_shares

\* C4: a record with stable_for_shares = false has both shares undefined
\* (NaN), neither zero nor a clipped value.
C4_UnstableSharesUndefined ==
  \A k \in RecordIndices :
    ~RollRecords[k].stable_for_shares =>
      /\ ~RollRecords[k].share_eps_pct.def
      /\ ~RollRecords[k].share_multiple_pct.def

\* an unstable record whose window has defined endpoint shares beyond the cap
C4_Witness ==
  \E k \in RecordIndices :
    LET r == RollRecords[k]
    IN /\ ~r.stable_for_shares
       /\ r.log_price.v > DenomEps
       /\ 100 * r.log_eps.v > roll.args.share_cap_pct * r.log_price.v
       /\ ~r.share_eps_pct.def

\* the share of the endpoint decomposer for a record's log components
UnclampedShare(log_x, log_price) ==
  IF log_price.fin /\ log_x.fin /\
     (log_price.v > DenomEps \/ 0 - log_price.v > DenomEps)
  THEN Frac(100 * log_x.v, log_price.v) ELSE ShareNaN

\* s clamped to [-cap, cap], by cross-multiplication
Clamped(s, cap) ==
  IF ~s.def THEN ShareNaN
  ELSE IF s.n > cap * s.d THEN [def |-> TRUE, n |-> cap, d |-> 1]
  ELSE IF s.n < (0 - cap) * s.d THEN [def |-> TRUE, n |-> 0 - cap, d |-> 1]
  ELSE s

\* C5: in every stable record each share is the endpoint decomposer's share
\* clamped to [-share_cap_pct, +share_cap_pct]: beyond the cap it is
\* sign(s) * share_cap_pct, within the cap it is unchanged.
C5_SharesClamped ==
  \A k \in RecordIndices :
    LET r == RollRecords[k]
        cap == roll.args.share_cap_pct
    IN r.stable_for_shares =>
         /\ r.share_eps_pct = Clamped(UnclampedShare(r.log_eps, r.log_price), cap)
         /\ r.share_multiple_pct =
              Clamped(UnclampedShare(r.log_multiple, r.log_price), cap)

\* a stable record with one share cut to +cap and the other to -cap, and a
\* stable record with a share strictly inside the cap
C5_Witness ==
  LET cap == roll.args.share_cap_pct
  IN /\ \E k \in RecordIndices :
          LET r == RollRecords[k]
          IN /\ r.stable_for_shares
             /\ r.log_price.v > DenomEps
             /\ 100 * r.log_eps.v > cap * r.log_price.v
             /\ 100 * r.log_multiple.v < (0 - cap) * r.log_price.v
             /\ r.share_eps_pct = [def |-> TRUE, n |-> cap, d |-> 1]
             /\ r.share_multiple_pct = [def |-> TRUE, n |-> 0 - cap, d |-> 1]
     /\ \E k \in RecordIndices :
          LET r == RollRecords[k]
          IN /\ r.stable_for_shares
             /\ r.share_multiple_pct.def
             /\ r.share_multiple_pct.n # 0
             /\ r.share_multiple_pct.n < cap * r.share_multiple_pct.d
             /\ r.share_multiple_pct.n > (0 - cap) * r.share_multiple_pct.d

\* the rows of the filtered series from a record's start date to its end date
WindowOf(r) ==
  LET InWindow(x) == r.start <= x.date /\ x.date <= r.end
  IN SelectSeq(DefinedSeq(1), InWindow)

\* C6: every record carries the log_price, log_eps and log_multiple of the
\* endpoint decomposition of its window, stable or not; a window with equal
\* start and end prices has log_price = 0, is unstable, has undefined shares
\* and still reports log_eps and log_multiple.
C6_LogsAlwaysEmitted ==
  \A k \in RecordIndices :
    LET r == RollRecords[k]
        d == decompose_endpoints(WindowOf(r))
    IN /\ d.status = "returned"
       /\ r.log_price = d.val.log_price
       /\ r.log_eps = d.val.log_eps
       /\ r.log_multiple = d.val.log_multiple
       /\ r.log_price.fin /\ r.log_eps.fin /\ r.log_multiple.fin

C6_Witness ==
  \E k \in RecordIndices :
    LET r == RollRecords[k]
    IN /\ r.log_price = Lin(0)
       /\ ~r.stable_for_shares
       /\ ~r.share_eps_pct.def /\ ~r.share_multiple_pct.def
       /\ r.log_eps.fin /\ r.log_eps.v # 0
       /\ r.log_multiple.fin /\ r.log_multiple.v # 0

\* C7: in the result of decompose_endpoints the two shares are defined iff
\* |log_price| > 1e-12, together, and then equal 100 * log_eps / log_price and
\* 100 * log_multiple / log_price.
C7_EndpointShares ==
  EndpointReturned =>
    LET d == endpoint.val
        big == d.log_price.v > DenomEps \/ 0 - d.log_price.v > DenomEps
    IN /\ d.share_eps_pct.def <=> big
       /\ d.share_multiple_pct.def <=> big
       /\ big =>
            /\ d.share_eps_pct.n * d.log_price.v =
                 100 * d.log_eps.v * d.share_eps_pct.d
            /\ d.share_multiple_pct.n * d.log_price.v =
                 100 * d.log_multiple.v * d.share_multiple_pct.d
            /\ d.share_eps_pct.d > 0 /\ d.share_multiple_pct.d > 0

\* a result at the threshold itself: |log_price| = 1e-12, no shares
C7_Witness ==
  /\ EndpointReturned
  /\ endpoint.val.log_price.v = DenomEps
  /\ ~endpoint.val.share_eps_pct.def
  /\ ~endpoint.val.share_multiple_pct.def

\* C8: decompose_endpoints starts at the first and ends at the last row, in
\* date order, whose price, pe and eps are all defined; a row with an
\* undefined field is never the start or the end, even when it is the first
\* or the last row of the input.
C8_FirstLastValid ==
  EndpointReturned =>
    LET dates == {panel[j].date : j \in DefinedRows}
    IN /\ dates # {}
       /\ endpoint.val.start = MinOf(dates)
       /\ endpoint.val.end = MaxOf(dates)

\* the first row has a price but no pe, and the result starts after it
C8_Witness ==
  /\ EndpointReturned
  /\ Len(panel) = MaxRows
  /\ panel[1].price.kind = "pos"
  /\ panel[1].pe.kind = "nan"
  /\ endpoint.val.start = panel[2].date

\* C9: decompose_endpoints fails (the ValueError of line 91, the spec's
\* InsufficientDataError) and returns nothing iff its input has fewer than 2
\* valid rows; with 2 or more it returns a result.
C9_InsufficientData ==
  endpoint.status # "none" =>
    /\ Cardinality(DefinedRows) < 2 =>
         endpoint.status = "raised" /\ endpoint.exc = "ValueError"
    /\ Cardinality(DefinedRows) >= 2 => endpoint.status = "returned"

C9_Witness ==
  /\ endpoint.status = "raised"
  /\ Cardinality(DefinedRows) = 1
  /\ Len(panel) >= 2

\* C10: rolling_decomposition called with a window width of 0, or any
\* non-positive width, fails instead of returning a result.
C10_NonPositiveWindowFails ==
  (roll.ret.status # "none" /\ roll.args.window_months <= 0) =>
    roll.ret.status = "raised"

\* C11: with a window width >= the number of valid rows,
\* rolling_decomposition returns an empty sequence of records and raises
\* nothing.
C11_WindowExceedsLength ==
  (roll.ret.status # "none" /\
   roll.args.window_months >= Cardinality(DefinedRows)) =>
    /\ roll.ret.status = "returned"
    /\ roll.ret.val = <<>>

\* a positive window as wide as a panel of two or more valid rows
C11_Witness ==
  /\ RollReturned
  /\ Cardinality(DefinedRows) >= 2
  /\ roll.args.window_months >= Cardinality(DefinedRows)
  /\ Len(panel) > roll.args.window_months
  /\ roll.ret.val = <<>>

\* the window indices of the call, and those whose decomposition succeeds
WindowIndices ==
  roll.args.window_months..(Len(DefinedSeq(1)) - 1)

WindowResult(i) ==
  decompose_endpoints(window_sub(DefinedSeq(1), i, roll.args.window_months))

GoodWindows == {i \in WindowIndices : WindowResult(i).status = "returned"}

\* the k-th smallest element of a set of integers
KthOf(S, k) == CHOOSE i \in S : Cardinality({j \in S : j <= i}) = k

ValidByDate ==
  LET dates == {panel[j].date : j \in DefinedRows}
  IN [k \in 1..Cardinality(dates) |->
        LET j == CHOOSE j \in DefinedRows : panel[j].date = KthOf(dates, k)
        IN panel[j]]

\* C13: the records of rolling_decomposition are in increasing end-date
\* order, exactly one per window that decomposed and nothing for a skipped
\* window, also for a panel whose rows are not sorted by date.
C13_RecordsInEndDateOrder ==
  roll.ret.status # "none" =>
    LET W == roll.args.window_months
        good == {i \in W..(Len(ValidByDate) - 1) :
                   decompose_endpoints(window_sub(ValidByDate, i, W)).status
                     = "returned"}
    IN /\ roll.ret.status = "returned"
       /\ Len(RollRecords) = Cardinality(good)
       /\ \A k \in RecordIndices :
            LET d == decompose_endpoints(
                       window_sub(ValidByDate, KthOf(good, k), W)).val
            IN RollRecords[k].start = d.start /\ RollRecords[k].end = d.end
       /\ \A k \in 1..(Len(RollRecords) - 1) :
            RollRecords[k].end < RollRecords[k + 1].end

\* a panel out of date order with two records
C13_Witness ==
  /\ RollReturned
  /\ roll.args.window_months >= 1
  /\ \E j \in 1..(Len(panel) - 1) : panel[j].date > panel[j + 1].date
  /\ Len(RollRecords) >= 2

(***************************************************************************)
(* Properties of load_pe_monthly.                                          *)
(***************************************************************************)
LoadReturned == load.status = "returned"
LoadedRows == IF LoadReturned THEN load.val ELSE <<>>

HasColumn(candidates) ==
  \E i \in 1..Len(table.header), k \in 1..Len(candidates) :
    lower(table.header[i]) = candidates[k]

\* the position in the file of the column picked for a field
ColumnIndex(candidates) ==
  CHOOSE i \in 1..Len(table.header) :
    table.header[i] = pick_col(table.header, candidates)

RawDate(j) == table.rows[j][ColumnIndex(DateCandidates)]
RawPrice(j) == table.rows[j][ColumnIndex(PriceCandidates)]
RawPe(j) == table.rows[j][ColumnIndex(PeCandidates)]

\* the file rows that fall in month m, by position
RowsOfMonth(m) ==
  {j \in 1..Len(table.rows) : RawDate(j) # NaT /\ RawDate(j).m = m}

\* a raw value as the panel holds it: itself when positive, undefined else
Nulled(c) == IF c.kind = "pos" THEN c ELSE NaN

\* C14: when several raw rows fall in one month, the output row of the month
\* is the last of them in input order: its price and its ratio both come
\* from that row, also when that row's price or ratio is missing or nulled.
C14_LastRowOfMonthWins ==
  \A k \in 1..Len(LoadedRows) :
    LET r == LoadedRows[k]
        j == MaxOf(RowsOfMonth(r.date))
    IN r.price = Nulled(RawPrice(j)) /\ r.pe = Nulled(RawPe(j))

C16_ImpliedEps ==
  load.status # "none" /\ HasColumn(DateCandidates) /\
  HasColumn(PriceCandidates) /\ HasColumn(PeCandidates) =>
    /\ LoadReturned
    /\ \A k \in 1..Len(LoadedRows) :
         LET r == LoadedRows[k]
         IN IF r.price.kind = "pos" /\ r.pe.kind = "pos"
            THEN r.eps = [kind |-> "pos", e |-> r.price.e - r.pe.e]
            ELSE r.eps = NaN

C16_Witness ==
  /\ LoadReturned
  /\ \E k \in 1..Len(LoadedRows) :
       /\ LoadedRows[k].price.kind = "pos"
       /\ LoadedRows[k].pe.kind = "pos"
       /\ LoadedRows[k].pe.e # 0
       /\ LoadedRows[k].eps.kind = "pos"
  /\ \E k \in 1..Len(LoadedRows) :
       /\ LoadedRows[k].price.kind = "pos"
       /\ LoadedRows[k].pe = NaN
       /\ LoadedRows[k].eps = NaN

\* C17: the loaded panel is strictly increasing by date: ascending, every
\* date the start of the month of a raw row, one row per month, no undefined
\* date.
C17_StrictlyIncreasingMonths ==
  LoadReturned =>
    /\ \A k \in 1..(Len(LoadedRows) - 1) :
         LoadedRows[k].date < LoadedRows[k + 1].date
    /\ \A k \in 1..Len(LoadedRows) :
         /\ LoadedRows[k].date # 0
         /\ RowsOfMonth(LoadedRows[k].date) # {}
    /\ \A j \in 1..Len(table.rows) :
         RawDate(j) # NaT =>
           \E k \in 1..Len(LoadedRows) : LoadedRows[k].date = RawDate(j).m

\* rows out of order, one of them not on the first day of its month
C17_Witness ==
  /\ LoadReturned
  /\ Len(table.rows) = 2
  /\ RawDate(1) = DateCell(2, 1)
  /\ RawDate(2) = DateCell(1, 2)
  /\ Len(LoadedRows) = 2

\* two rows of one month give one row
C17_WitnessDuplicates ==
  /\ LoadReturned
  /\ \E m \in 1..2 : Cardinality(RowsOfMonth(m)) = 2
  /\ Len(LoadedRows) = 1

\* C18: load_pe_monthly fails (the ValueError of lines 55, 61, 66, the
\* spec's SchemaError) and gives no panel when no column matches a date
\* name, or none a price name, or none a ratio name; with all three it does
\* not fail.
C18_SchemaError ==
  load.status # "none" =>
    IF HasColumn(DateCandidates) /\ HasColumn(PriceCandidates) /\
       HasColumn(PeCandidates)
    THEN load.status = "returned"
    ELSE load.status = "raised" /\ load.exc = "ValueError"

C18_Witness ==
  /\ load.status = "raised"
  /\ HasColumn(DateCandidates)
  /\ HasColumn(PriceCandidates)
  /\ ~HasColumn(PeCandidates)
  /\ Len(table.rows) >= 1

\* C19: loading the file written from a loaded panel gives the same rows in
\* the same order, with the same date, price, pe and eps.
C19_LoaderIdempotent ==
  reload.status # "none" =>
    /\ reload.status = "returned"
    /\ reload.val = load.val

C19_Witness ==
  /\ reload.status = "returned"
  /\ Len(reload.val) = 2
  /\ reload.val[1].price = NaN
  /\ reload.val[2].eps.kind = "pos"

(***************************************************************************)
(* Properties of the batch loop of main.                                   *)
(***************************************************************************)
\* the tickers the loop has gone through
Processed == SubSeq(args.tickers, 1, pc.i - 1)

\* the panels a ticker's file can load to, after the date filters
PanelsOf(t) ==
  IF ~files[t].exists THEN {}
  ELSE {date_filter(o.val, args.start, args.end) :
          o \in {x \in load_pe_monthly(files[t].table) : x.status = "returned"}}

\* the panels of a ticker whose endpoint decomposition returns
EndpointPanelsOf(t) ==
  {p \in PanelsOf(t) : decompose_endpoints(p).status = "returned"}

Succeeds(t) == EndpointPanelsOf(t) # {}

\* the summary rows and the rolling records of a ticker processed alone
AloneSummary(t) ==
  {summary_row(t, decompose_endpoints(p).val) : p \in EndpointPanelsOf(t)}

AloneRecords(t) ==
  {rolling_decomposition(p, t, args.rolling_months, args.min_abs_log_price,
                         args.share_cap_pct).val : p \in EndpointPanelsOf(t)}

TickersOf(rows) == [k \in 1..Len(rows) |-> rows[k].ticker]

RecordsOfTicker(t) ==
  LET Mine(r) == r.ticker = t
  IN SelectSeq(concat(rolling_frames), Mine)

SummaryFiles ==
  {k \in 1..Len(written) : written[k].name = <<"decomposition_summary.csv">>}

\* C20: in the loop over the tickers, a ticker whose file is missing, whose
\* load fails or whose endpoint decomposition fails adds no summary row and
\* no rolling records and does not end the run; the summary rows are, in
\* the order of the loop, one row for each processed ticker whose endpoint
\* decomposition returns, each row and each ticker's rolling records being
\* what that ticker gives alone; the summary file written after the loop
\* holds those rows.
C20_FailedTickerSkipped ==
  /\ pc.at # "crashed"
  /\ pc.at \in {"loop", "done"} =>
       /\ TickersOf(summary_rows) = SelectSeq(Processed, Succeeds)
       /\ \A k \in 1..Len(summary_rows) :
            summary_rows[k] \in AloneSummary(summary_rows[k].ticker)
       /\ \A k \in 1..Len(Processed) :
            RecordsOfTicker(Processed[k]) \in
              (IF Succeeds(Processed[k]) THEN AloneRecords(Processed[k])
               ELSE {<<>>})
       /\ \A r \in {concat(rolling_frames)[k] :
                      k \in 1..Len(concat(rolling_frames))} :
            \E k \in 1..Len(Processed) : Processed[k] = r.ticker
  /\ pc.at = "done" =>
       /\ Len(Processed) = Len(args.tickers)
       /\ IF summary_rows = <<>> THEN written = <<>>
          ELSE /\ Cardinality(SummaryFiles) = 1
               /\ \A k \in SummaryFiles :
                    /\ Len(written[k].content) = Len(summary_rows)
                    /\ {written[k].content[j] :
                          j \in 1..Len(written[k].content)}
                       = {summary_rows[j] : j \in 1..Len(summary_rows)}

\* a run that ended after a ticker whose load failed and a ticker that
\* gave a summary row and rolling records
C20_Witness ==
  /\ pc.at = "done"
  /\ files[args.tickers[1]].exists
  /\ PanelsOf(args.tickers[1]) = {}
  /\ Len(summary_rows) = 1
  /\ summary_rows[1].ticker = args.tickers[2]
  /\ rolling_frames # <<>>
  /\ Cardinality(SummaryFiles) = 1

\* a run that went past a missing file and past a failed endpoint
\* decomposition
C20_WitnessOtherFailures ==
  /\ pc.at = "done"
  /\ \E i, j \in 1..Len(args.tickers) :
       /\ ~files[args.tickers[i]].exists
       /\ PanelsOf(args.tickers[j]) # {}
       /\ ~Succeeds(args.tickers[j])
  /\ written = <<>>

(***************************************************************************)
(* Properties of pick_col.                                                 *)
(***************************************************************************)
\* the candidates that some column matches, case-insensitively
MatchedCandidates(columns, candidates) ==
  {k \in 1..Len(candidates) :
     \E i \in 1..Len(columns) : lower(columns[i]) = lower(candidates[k])}

\* the same columns in another order
Reordered(columns) ==
  {[k \in 1..Len(columns) |-> columns[f[k]]] : f \in DateOrders(Len(columns))}

\* C21: pick_col returns an input column that matches, case-insensitively,
\* the earliest candidate that has a match; the column returned does not
\* depend on the order of the input columns; no column is returned only
\* when no candidate matches.
C21_PickColOrderIndependent ==
  load.status = "returned" =>
    LET cands == load.val.candidates
        col == load.val.col
        hit == MatchedCandidates(table.header, cands)
    IN /\ (col = None) <=> (hit = {})
       /\ col # None =>
            /\ InSeq(col, table.header)
            /\ lower(col) = lower(cands[MinOf(hit)])
       /\ \A h \in Reordered(table.header) : pick_col(h, cands) = col

(***************************************************************************)
(* Frame of the two decomposers.                                           *)
(***************************************************************************)
\* the recorded results are what a call on the panel as it is now returns
ResultsOfCurrentPanel ==
  /\ EndpointReturned => endpoint = decompose_endpoints(panel)
  /\ roll.ret.status # "none" =>
       roll.ret = rolling_decomposition(panel, Ticker, roll.args.window_months,
                                        roll.args.min_abs_log_price,
                                        roll.args.share_cap_pct)

C23_NoWindowSkipped ==
  (roll.ret.status # "none" /\ roll.args.window_months >= 1) =>
    LET W == roll.args.window_months
        n == Cardinality(DefinedRows)
        valid == DefinedSeq(1)
    IN /\ roll.ret.status = "returned"
       /\ Len(RollRecords) = (IF n > W THEN n - W ELSE 0)
       /\ \A k \in RecordIndices :
            /\ RollRecords[k].start = valid[k].date
            /\ RollRecords[k].end = valid[k + W].date

\* a window of width 1 that spans a dropped row in the middle of the panel
C23_Witness ==
  /\ RollReturned
  /\ roll.args.window_months = 1
  /\ Len(panel) = 3
  /\ DefinedRows = {1, 3}
  /\ Len(RollRecords) = 1

\* as many records as the bounds allow
C23_WitnessFull ==
  /\ RollReturned
  /\ roll.args.window_months = 1
  /\ Cardinality(DefinedRows) = MaxRows
  /\ Len(RollRecords) = MaxRows - 1

(***************************************************************************)
(* The stability flag and the definedness of the shares.                   *)
(***************************************************************************)
SharesDefined(r) == r.share_eps_pct.def /\ r.share_multiple_pct.def
SharesUndefined(r) == ~r.share_eps_pct.def /\ ~r.share_multiple_pct.def

\* |log_price| > 1e-12, the condition of line 105
AboveDenomEps(r) == Abs(r.log_price.v) > DenomEps

SumIs100(a, b) ==
  /\ a.def /\ b.def
  /\ a.n * b.d + b.n * a.d = 100 * a.d * b.d

\* a + b < 100 on defined shares
SumBelow100(a, b) ==
  /\ a.def /\ b.def
  /\ a.n * b.d + b.n * a.d < 100 * a.d * b.d

\* s lies in [-cap, cap]: clipping leaves it as it is
WithinCap(s, cap) == s.def /\ (0 - cap) * s.d <= s.n /\ s.n <= cap * s.d

EndpointSharesSum ==
  (EndpointReturned /\ endpoint.val.share_eps_pct.def
                    /\ endpoint.val.share_multiple_pct.def) =>
    SumIs100(endpoint.val.share_eps_pct, endpoint.val.share_multiple_pct)

\* C25: whenever the shares of decompose_endpoints are defined they sum to
\* 100, and in every stable record of rolling_decomposition the two shares
\* sum to 100 as well, also when a share was clamped to +/- share_cap_pct.
C25_SharesSumTo100 ==
  /\ EndpointSharesSum
  /\ \A k \in RecordIndices :
       RollRecords[k].stable_for_shares =>
         SumIs100(RollRecords[k].share_eps_pct,
                  RollRecords[k].share_multiple_pct)

\* C25 as amended: the defined shares of decompose_endpoints sum to 100; in
\* a record of rolling_decomposition with defined shares (and a positive
\* cap) the shares before clamping sum to 100, and the emitted shares sum
\* to 100 exactly when neither was clamped, to less than 100 otherwise.
C25_SumUnlessClamped ==
  /\ EndpointSharesSum
  /\ \A k \in RecordIndices :
       LET r == RollRecords[k]
           cap == roll.args.share_cap_pct
           ue == UnclampedShare(r.log_eps, r.log_price)
           um == UnclampedShare(r.log_multiple, r.log_price)
       IN SharesDefined(r) =>
            /\ SumIs100(ue, um)
            /\ SumIs100(r.share_eps_pct, r.share_multiple_pct)
                 <=> (WithinCap(ue, cap) /\ WithinCap(um, cap))
            /\ ~(WithinCap(ue, cap) /\ WithinCap(um, cap))
                 => SumBelow100(r.share_eps_pct, r.share_multiple_pct)

\* an endpoint result with shares, a record with a share cut to the cap and
\* a sum other than 100
C25_Witness ==
  /\ EndpointReturned
  /\ endpoint.val.share_eps_pct.def
  /\ \E k \in RecordIndices :
       LET r == RollRecords[k]
       IN /\ r.stable_for_shares
          /\ SharesDefined(r)
          /\ r.share_eps_pct = Frac(roll.args.share_cap_pct, 1)
          /\ ~SumIs100(r.share_eps_pct, r.share_multiple_pct)

\* a record whose shares are inside the cap, are not both 50 and sum to 100
C25_WitnessUnclamped ==
  \E k \in RecordIndices :
    LET r == RollRecords[k]
    IN /\ SharesDefined(r)
       /\ SumIs100(r.share_eps_pct, r.share_multiple_pct)
       /\ r.share_eps_pct # r.share_multiple_pct

====
